---- MODULE Spec2Model ----
(***************************************************************************)
(* A model of sii_jax.py, the one-third-octave-band Speech Intelligibility *)
(* Index of ANSI S3.5-1997: the standard tables, band_importance, the      *)
(* three input procedures input_5p1 / input_5p2 / input_5p3 and sii.       *)
(*                                                                         *)
(* Numbers.  The program computes in floating point; the model computes in *)
(* fixed point.  A level in dB is an integer number of thousandths of a dB *)
(* (32.41 dB is 32410), a band-importance weight an integer number of      *)
(* ten-thousandths (0.0083 is 83), a modulation transfer value an integer  *)
(* number of thousandths, and the score returned by sii an integer number  *)
(* of millionths (0.445 is 445000).  Sums of powers 10^(x/10) are formed   *)
(* on the dB scale (LogAdd), every product is scaled so that it stays      *)
(* within 32 bits.  Against a double-precision evaluation of the same      *)
(* formulas the score is reproduced within 1e-4 and every masking level    *)
(* within 0.01 dB over the inputs the model draws.                         *)
(*                                                                         *)
(* Python values.  An argument is a record [form, v, s]: form is "none"    *)
(* (None), "str" (s is the string), "list" (a Python list, v its items),   *)
(* "array" (a numpy or jax array of one dimension, v its items) or         *)
(* "scalar" (a number, v = <<x>>).  A call ends by returning a value       *)
(* (status "ok") or by raising; the status then names the exception class. *)
(***************************************************************************)
EXTENDS Integers, Sequences, FiniteSets, TLC

VARIABLES pc, op, source, args, ret, locals, warnings, held, first, tables

vars == <<pc, op, source, args, ret, locals, warnings, held, first, tables>>

(***************************************************************************)
(* The number of one-third-octave bands and of modulation frequencies.     *)
(***************************************************************************)
NumBands == 18

NumModFreqs == 9

Bands == 1..NumBands

(***************************************************************************)
(* Fixed-point arithmetic.                                                 *)
(***************************************************************************)
Max(a, b) == IF a >= b THEN a ELSE b

Min(a, b) == IF a <= b THEN a ELSE b

Abs(a) == IF a >= 0 THEN a ELSE -a

\* a * b / 1000 for b >= 0, without forming a * b.
MulK(a, b) == a * (b \div 1000) + (a * (b % 1000)) \div 1000

\* Band centre frequencies (Hz) used by sii.
f ==
    <<160, 200, 250, 315, 400, 500, 630, 800, 1000,
       1250, 1600, 2000, 2500, 3150, 4000, 5000, 6300, 8000 >>

\* jnp.log10(f), in millionths.
LogF ==
    <<2204120, 2301030, 2397940, 2498311, 2602060, 2698970,
       2799341, 2903090, 3000000, 3096910, 3204120, 3301030,
       3397940, 3498311, 3602060, 3698970, 3799341, 3903090 >>

\* log10(0.89), in millionths.
Log089 == 0 - 50610

\* 10*log10(1 + 10^(-d/10)) at d = 0, 0.25, 0.5, ... 40 dB, in thousandths of
\* a dB: what adding a power d dB below another adds to the larger level.
CorrTable ==
    <<3010, 2887, 2767, 2651, 2539, 2430, 2325, 2223, 2124, 2029, 1938, 1849, 1764, 1682, 1604, 1528,
       1455, 1386, 1319, 1255, 1193, 1135, 1078, 1025, 973, 924, 877, 833, 790, 749, 711, 674,
       639, 606, 574, 544, 515, 488, 462, 437, 414, 392, 371, 351, 332, 314, 297, 281,
       266, 251, 238, 225, 212, 201, 190, 179, 170, 160, 151, 143, 135, 128, 121, 114,
       108, 102, 96, 91, 86, 81, 77, 72, 68, 64, 61, 58, 54, 51, 48, 46,
       43, 41, 39, 36, 34, 32, 31, 29, 27, 26, 24, 23, 22, 21, 19, 18,
       17, 16, 15, 15, 14, 13, 12, 12, 11, 10, 10, 9, 9, 8, 8, 7,
       7, 6, 6, 6, 5, 5, 5, 5, 4, 4, 4, 4, 3, 3, 3, 3,
       3, 3, 2, 2, 2, 2, 2, 2, 2, 2, 2, 1, 1, 1, 1, 1,
       1, 1, 1, 1, 1, 1, 1, 1, 1, 1, 1, 1, 1, 1, 0, 0,
       0 >>

Corr(d) ==
    IF d >= 250 * (Len(CorrTable) - 1) THEN 0
    ELSE LET k == d \div 250
             r == d % 250
             a == CorrTable[k + 1]
             b == CorrTable[k + 2]
         IN  a - ((a - b) * r) \div 250

\* 10*log10(10^(a/10) + 10^(b/10)).
LogAdd(a, b) == Max(a, b) + Corr(Abs(a - b))

\* Internal Noise Spectrum Level (Table 3).
X0 ==
    <<600, -1700, -3900, -6100, -8200, -9700, -10800, -11900, -12500,
       -13500, -15400, -17700, -21200, -24200, -25900, -23600, -15800, -7100 >>

\* Table 3: speech spectrum level by band (row) and vocal effort (column).
ei ==
    << <<32410, 33810, 35290, 30770>>,
       <<34480, 33920, 37760, 36650>>,
       <<34750, 38980, 41550, 42500>>,
       <<33980, 38570, 43780, 46510>>,
       <<34590, 39110, 43300, 47400>>,
       <<34270, 40150, 44850, 49240>>,
       <<32060, 38780, 45550, 51210>>,
       <<28300, 36370, 44050, 51440>>,
       <<25010, 33860, 42160, 51310>>,
       <<23000, 31890, 40530, 49630>>,
       <<20150, 28580, 37700, 47650>>,
       <<17320, 25320, 34390, 44320>>,
       <<13180, 22350, 30980, 40800>>,
       <<11550, 20150, 28210, 38130>>,
       <<9330, 16780, 25410, 34410>>,
       <<5310, 11470, 18350, 28240>>,
       <<2590, 7670, 13870, 23450>>,
       <<1130, 5070, 11390, 20720>> >>

band_importance_array ==
    << <<83, 0, 365, 168, 0, 114, 0, 82>>,
       <<95, 0, 279, 130, 240, 153, 255, 168>>,
       <<150, 153, 405, 211, 330, 179, 256, 255>>,
       <<289, 284, 500, 344, 390, 558, 360, 374>>,
       <<440, 363, 530, 517, 571, 898, 362, 637>>,
       <<578, 422, 518, 737, 691, 944, 514, 694>>,
       <<653, 509, 514, 658, 781, 709, 616, 529>>,
       <<711, 584, 575, 644, 751, 660, 770, 374>>,
       <<818, 667, 717, 664, 781, 628, 718, 441>>,
       <<844, 774, 873, 802, 811, 672, 718, 784>>,
       <<882, 893, 902, 987, 961, 747, 1075, 1035>>,
       <<898, 1104, 938, 1171, 901, 755, 921, 1023>>,
       <<868, 1120, 928, 932, 781, 820, 1026, 926>>,
       <<844, 981, 678, 783, 691, 808, 922, 738>>,
       <<771, 867, 498, 562, 480, 483, 719, 596>>,
       <<527, 728, 312, 337, 330, 453, 461, 454>>,
       <<364, 551, 215, 177, 270, 274, 306, 365>>,
       <<185, 0, 253, 176, 240, 145, 0, 275>> >>


(***************************************************************************)
(* Python values and outcomes.                                             *)
(***************************************************************************)
NoneArg == [form |-> "none", v |-> <<>>, s |-> ""]

StrArg(s) == [form |-> "str", v |-> <<>>, s |-> s]

IntArg(k) == [form |-> "int", v |-> <<k>>, s |-> ""]

ScalarArg(x) == [form |-> "scalar", v |-> <<x>>, s |-> ""]

ListArg(v) == [form |-> "list", v |-> v, s |-> ""]

ArrayArg(v) == [form |-> "array", v |-> v, s |-> ""]

Ok(val) == [status |-> "ok", msg |-> "", val |-> val]

Raise(kind, msg) == [status |-> kind, msg |-> msg, val |-> <<>>]

\* jnp.zeros(18), c*jnp.ones(n).
Const(c, n) == [i \in 1..n |-> c]

\* An array with its items evaluated: the function a as a sequence.
Arr(a) == a \o <<>>

\* x.shape of jnp.asarray(x) for a number, a list or a one-dimensional array.
Shape(x) == IF x.form = "scalar" THEN <<>> ELSE <<Len(x.v)>>

\* Position of the first item of list equal to x: list.index(x) + 1.
IndexOf(list, x) == CHOOSE i \in 1..Len(list) :
                        /\ list[i] = x
                        /\ \A j \in 1..(i - 1) : list[j] # x

\* m[:, c - 1]
Column(m, c) == [i \in 1..Len(m) |-> m[i][c]]

\* Lines 47-48: the module's table of band centre frequencies.
mid_band_freqs ==
    <<160, 200, 250, 315, 400, 500, 630, 800, 1000,
      1250, 1600, 2000, 2500, 3159, 4000, 5000, 6300, 8000>>

(***************************************************************************)
(* speech_spectrum                                                         *)
(***************************************************************************)
\* Mutant of Lower: the label is compared as it was passed.
LowerUnchanged(s) == s

\* str.lower() on the labels the model passes.
Lower(s) ==
    CASE s = "Normal" -> "normal"
      [] s = "RAISED" -> "raised"
      [] s = "Loud"   -> "loud"
      [] s = "SHOUT"  -> "shout"
      [] s = "ALL"    -> "all"
      [] OTHER        -> s

speech_spectrum(vocal_effort) ==
    LET effort == Lower(vocal_effort)
    IN  CASE effort = "normal" -> Ok(Column(ei, 1))
          [] effort = "raised" -> Ok(Column(ei, 2))
          [] effort = "loud"   -> Ok(Column(ei, 3))
          [] effort = "shout"  -> Ok(Column(ei, 4))
          [] effort = "all"    -> Ok(ei)
          [] OTHER -> Raise("ValueError", "Identifier string not recognized")

(***************************************************************************)
(* band_importance                                                         *)
(***************************************************************************)
band_importance_names ==
    <<"standard", "nns", "cid-22", "nu6", "drt", "spin", "short", "spin", "cst">>

\* Lines 119-130: the number the docstring gives each test.
DocumentedNumber(name) ==
    CASE name = "standard" -> 1
      [] name = "nns"      -> 2
      [] name = "cid-22"   -> 3
      [] name = "nu6"      -> 4
      [] name = "drt"      -> 5
      [] name = "short"    -> 6
      [] name = "spin"     -> 7
      [] name = "cst"      -> 8

InNames(s) == \E i \in 1..Len(band_importance_names) : band_importance_names[i] = s

\* Lines 135-140: a recognized name becomes band_importance_names.index(name).
ResolveName(test_number) ==
    IF test_number.form = "str"
    THEN IntArg(IndexOf(band_importance_names, test_number.s) - 1)
    ELSE test_number

\* Mutant of SelectorInRange: selector 1 is refused.
SelectorAboveOne(k) == ~(k <= 1 \/ k > 8)

\* Lines 142-144: the range an integer selector must lie in.
SelectorInRange(k) == ~(k < 1 \/ k > 8)

\* Mutant of WrongImportanceSize: only a vector that is too short is refused.
ImportanceTooShort(importance) == Len(importance.v) < NumBands

\* Line 171: importance.shape[0] != 18.
WrongImportanceSize(importance) == Len(importance.v) # NumBands

band_importance(test_number) ==
    IF test_number.form = "str" /\ ~InNames(test_number.s)
    THEN Raise("ValueError", "Test name not recognized")
    ELSE LET tn == ResolveName(test_number)
         IN  CASE tn.form = "int" ->
                    IF ~SelectorInRange(tn.v[1])
                    THEN Raise("ValueError", "Test number must be between 1 and 8")
                    ELSE Ok(Column(band_importance_array, tn.v[1]))
               [] tn.form = "none" ->
                    Raise("TypeError", "None is not a valid JAX array type")
               [] tn.form = "scalar" ->
                    Raise("IndexError", "tuple index out of range")
               [] OTHER ->
                    IF WrongImportanceSize(tn)
                    THEN Raise("ValueError", "Supplied band importance must have 18 values")
                    ELSE Ok(tn.v)

(***************************************************************************)
(* sii                                                                     *)
(***************************************************************************)
\* Line 575: V = ssl - 24.
SelfMasking(ssl) == [i \in Bands |-> ssl[i] - 24000]

\* Mutant of MaskingBase: jnp.minimum for jnp.maximum.
MaskingBaseMinimum(V, nsl) == [i \in Bands |-> Min(V[i], nsl[i])]

\* Line 578: B = jnp.maximum(V, nsl).
MaskingBase(V, nsl) == [i \in Bands |-> Max(V[i], nsl[i])]

\* Line 581: C = 0.6*(B + 10*log10(f) - 6.353) - 80.
Slope(B) == [i \in Bands |-> (6 * (B[i] + LogF[i] \div 100 - 6353)) \div 10 - 80000]

\* Lines 590-591: 3.32*C[j]*log10(0.89*f[i]/f[j]).
Spread(Cj, i, j) ==
    ((MulK(Cj, Log089 + LogF[i] - LogF[j]) \div 100) * 332) \div 1000

\* Mutant of MaskSum: the sum runs over B[:i+1], the band's own level included.
RECURSIVE MaskSumThroughOwnBand(_, _, _, _, _)
MaskSumThroughOwnBand(B, C, i, j, acc) ==
    IF j > i THEN acc
    ELSE MaskSumThroughOwnBand(B, C, i, j + 1, LogAdd(acc, B[j] + Spread(C[j], i, j)))

\* Lines 589-591: the level of 10**(0.1*nsl[i]) plus the sum over the bands
\* j, j+1, ... i-1; acc is the level of the part of the sum formed so far.
RECURSIVE MaskSum(_, _, _, _, _)
MaskSum(B, C, i, j, acc) ==
    IF j >= i THEN acc
    ELSE MaskSum(B, C, i, j + 1, LogAdd(acc, B[j] + Spread(C[j], i, j)))

\* Lines 586-592.
MaskingLevel(B, C, nsl) ==
    [i \in Bands |-> IF i = 1 THEN B[1] ELSE MaskSum(B, C, i, 1, nsl[i])]

\* Line 594: X = X + hearing_threshold.
InternalNoise(hearing_threshold) == [i \in Bands |-> X0[i] + hearing_threshold[i]]

\* Mutant of Disturbance: jnp.minimum for jnp.maximum.
DisturbanceMinimum(Z, X) == [i \in Bands |-> Min(Z[i], X[i])]

\* Line 597: D = jnp.maximum(Z, X).
Disturbance(Z, X) == [i \in Bands |-> Max(Z[i], X[i])]

\* Lines 600-601, in millionths: L = min(1, 1 - (ssl - normal - 10)/160).
LevelDistortion(ssl) ==
    LET U == speech_spectrum("normal").val
    IN  [i \in Bands |->
            (Min(160000, 160000 - (ssl[i] - U[i] - 10000)) * 25) \div 4]

\* Mutant of BandAudibility: the upper clamp is left out.
BandAudibilityUnlimited(ssl, D) ==
    [i \in Bands |-> (Max(0, ssl[i] - D[i] + 15000) * 100) \div 3]

\* Lines 604-605, in millionths: K = min(1, max(0, (ssl - D + 15)/30)).
BandAudibility(ssl, D) ==
    [i \in Bands |-> (Min(30000, Max(0, ssl[i] - D[i] + 15000)) * 100) \div 3]

\* Line 608, in millionths: A = L*K.
Audibility(L, K) == [i \in Bands |-> MulK(L[i], K[i]) \div 1000]

\* Line 611: jnp.sum(importance*A), in millionths.
RECURSIVE WeightedSum(_, _, _)
WeightedSum(I, A, n) ==
    IF n = 0 THEN 0 ELSE WeightedSum(I, A, n - 1) + MulK(A[n], I[n]) \div 10

\* Lines 575-608: sii's local arrays for valid ssl, nsl and hearing_threshold.
SiiLocals(ssl, nsl, hearing_threshold) ==
    LET V == SelfMasking(ssl)
        B == Arr(MaskingBase(V, nsl))
        C == Arr(Slope(B))
        Z == Arr(MaskingLevel(B, C, nsl))
        X == InternalNoise(hearing_threshold)
        D == Arr(Disturbance(Z, X))
        L == Arr(LevelDistortion(ssl))
        K == Arr(BandAudibility(ssl, D))
    IN  [B |-> B, Z |-> Z, X |-> X, D |-> D, L |-> L, K |-> K,
         A |-> Arr(Audibility(L, K))]

NoLocals == [B |-> <<>>, Z |-> <<>>, X |-> <<>>, D |-> <<>>, L |-> <<>>,
             K |-> <<>>, A |-> <<>>]

\* Mutant of DefaultTo: jnp.zeros(18) whatever the default level.
DefaultToZeros(x, c) == IF x.form = "none" THEN ArrayArg(Const(0, NumBands)) ELSE x

\* Lines 542-551: the defaults of an omitted nsl and hearing_threshold.
DefaultTo(x, c) == IF x.form = "none" THEN ArrayArg(Const(c, NumBands)) ELSE x

\* Lines 553-559: the first shape check that fails, or "" when all pass.
SiiShapeError(ssl, nsl, ht) ==
    CASE Shape(nsl) # <<NumBands>> ->
            "Equivalent Noise Spectrum Level: Vector size incorrect"
      [] Shape(ht) # <<NumBands>> ->
            "Equivalent Hearing Threshold Level: Vector size incorrect"
      [] Shape(ssl) # <<NumBands>> ->
            "Equivalent Speech Spectrum Level: Vector size incorrect"
      [] OTHER -> ""

\* The outcome of sii and its local arrays: <<ret, locals>>.
sii(ssl, nsl, hearing_threshold, band_importance_function) ==
    LET n == DefaultTo(nsl, 0 - 50000)
        t == DefaultTo(hearing_threshold, 0)
        err == SiiShapeError(ssl, n, t)
    IN  IF ssl.form \in {"none", "str"}
        THEN <<Raise("TypeError", "not a valid JAX array type"), NoLocals>>
        ELSE IF err # ""
        THEN <<Raise("ValueError", err), NoLocals>>
        ELSE LET loc == SiiLocals(ssl.v, n.v, t.v)
                 imp == band_importance(band_importance_function)
             IN  IF imp.status # "ok"
                 THEN <<imp, loc>>
                 ELSE <<Ok(WeightedSum(imp.val, loc.A, NumBands)), loc>>

(***************************************************************************)
(* Array arithmetic of the input procedures.                               *)
(***************************************************************************)
\* jnp.asarray(x) of a number, a list or an array.
AsArray(x) == IF x.form = "list" THEN ArrayArg(x.v) ELSE x

\* Whether the shapes of a and b broadcast against each other.
CanBroadcast(a, b) ==
    \/ Shape(a) = <<>>
    \/ Shape(b) = <<>>
    \/ Len(a.v) = Len(b.v)
    \/ Len(a.v) = 1
    \/ Len(b.v) = 1

Item(x, i) == IF Len(x.v) = 1 THEN x.v[1] ELSE x.v[i]

\* a + b for shapes that broadcast.
Add(a, b) ==
    IF Shape(a) = <<>> /\ Shape(b) = <<>>
    THEN ScalarArg(a.v[1] + b.v[1])
    ELSE LET n == IF Shape(a) = <<>> THEN Len(b.v)
                  ELSE IF Shape(b) = <<>> THEN Len(a.v)
                  ELSE IF Len(a.v) = 1 THEN Len(b.v)
                  ELSE Len(a.v)
         IN  ArrayArg([i \in 1..n |-> Item(a, i) + Item(b, i)])

\* a - c for a number c.
Offset(a, c) ==
    IF Shape(a) = <<>> THEN ScalarArg(a.v[1] - c)
    ELSE ArrayArg([i \in 1..Len(a.v) |-> a.v[i] - c])

\* Python's truth value of an argument: "true", "false", or "raises" for an
\* array of more than one element, whose truth value is ambiguous.
Truth(x) ==
    CASE x.form = "none" -> "false"
      [] x.form = "str" -> IF x.s = "" THEN "false" ELSE "true"
      [] x.form = "list" -> IF Len(x.v) = 0 THEN "false" ELSE "true"
      [] x.form \in {"scalar", "int"} -> IF x.v[1] = 0 THEN "false" ELSE "true"
      [] OTHER -> IF Len(x.v) = 0 THEN "false"
                  ELSE IF Len(x.v) > 1 THEN "raises"
                  ELSE IF x.v[1] = 0 THEN "false" ELSE "true"

Triple(ssl, nsl, ht) == [ssl |-> ssl, nsl |-> nsl, hearing_threshold |-> ht]

(***************************************************************************)
(* input_5p1                                                               *)
(***************************************************************************)
\* 20*jnp.log10(distance) for the distances the model passes, a distance
\* being given in tenths of a metre.
DistanceLoss(distance) ==
    CASE distance = 5   -> 0 - 6021
      [] distance = 10  -> 0
      [] distance = 20  -> 6021
      [] distance = 100 -> 20000

\* Mutant of DistanceOrReference: an omitted distance is taken as 2 m.
DistanceOrTwoMetres(distance) ==
    IF Truth(distance) = "true" THEN distance.v[1] ELSE 20

\* Line 243: distance or 1.0.
DistanceOrReference(distance) ==
    IF Truth(distance) = "true" THEN distance.v[1] ELSE 10

\* Lines 244-245, 249-250: the insertion gain that is added.
GainOrZeros(insertion_gain) ==
    IF insertion_gain.form = "none" THEN ArrayArg(Const(0, NumBands))
    ELSE insertion_gain

\* Lines 241-254: the equivalent speech spectrum level.  bk is the exception
\* class the installed jax raises for shapes that do not broadcast.
EquivalentSpeech(ssl, insertion_gain, distance, bk) ==
    LET g == GainOrZeros(insertion_gain)
    IN  IF ssl.form = "str"
        THEN LET sp == speech_spectrum(ssl.s)
             IN  IF sp.status # "ok" THEN sp
                 ELSE IF g.form = "list"
                 THEN Raise("TypeError", "unsupported operand type(s) for +")
                 ELSE IF Lower(ssl.s) = "all"
                 THEN IF Shape(g) \in {<<>>, <<1>>, <<4>>}
                      THEN Ok([form |-> "matrix", v |-> ei, s |-> ""])
                      ELSE Raise(bk, "incompatible shapes for broadcasting")
                 ELSE IF ~CanBroadcast(ArrayArg(sp.val), g)
                 THEN Raise(bk, "incompatible shapes for broadcasting")
                 ELSE Ok(Add(Offset(ArrayArg(sp.val),
                                    DistanceLoss(DistanceOrReference(distance))),
                             g))
        ELSE IF g.form = "list"
        THEN Raise("TypeError", "unsupported operand type(s) for +")
        ELSE IF ~CanBroadcast(AsArray(ssl), g)
        THEN Raise(bk, "incompatible shapes for broadcasting")
        ELSE Ok(Add(AsArray(ssl), g))

\* Lines 252-254: the warning about a distance given with a measured spectrum.
DistanceWarning(ssl, distance) ==
    IF ssl.form # "str" /\ Truth(distance) = "true" THEN 1 ELSE 0

\* Mutant of EquivalentNoise: the insertion gain is not added to the noise.
EquivalentNoiseWithoutGain(nsl, g, bk) ==
    IF nsl.form = "none" THEN Ok(ArrayArg(Const(0 - 50000, NumBands)))
    ELSE Ok(AsArray(nsl))

\* Lines 257-260: the equivalent noise spectrum level.
EquivalentNoise(nsl, g, bk) ==
    IF nsl.form = "none" THEN Ok(ArrayArg(Const(0 - 50000, NumBands)))
    ELSE IF ~CanBroadcast(AsArray(nsl), AsArray(g))
    THEN Raise(bk, "incompatible shapes for broadcasting")
    ELSE Ok(Add(AsArray(nsl), AsArray(g)))

\* Lines 263-266 (and 332-335, 421-424).
ThresholdOrZeros(hearing_threshold) ==
    IF hearing_threshold.form = "none" THEN ArrayArg(Const(0, NumBands))
    ELSE AsArray(hearing_threshold)

\* Mutant of Binaural: the threshold is lowered by 2 dB.
BinauralTwo(hearing_threshold) == Offset(hearing_threshold, 2000)

\* Lines 271-272: the binaural threshold, 1.7 dB lower.
Binaural(hearing_threshold) == Offset(hearing_threshold, 1700)

\* Mutant of SubtractInPlace: the array the caller passed is written to.
SubtractInPlaceShared(x, c) == IF x.form = "array" THEN Offset(x, c) ELSE x

\* Line 272: hearing_threshold -= 1.7, as the object x the caller passed is
\* left by it.  The local name is bound to a jax array (lines 264-266), which
\* is immutable: the statement binds the name to a new array.
SubtractInPlace(x, c) == x

\* The outcome of input_5p1 and the number of warnings it emits: <<ret, n>>.
input_5p1(ssl, nsl, insertion_gain, distance, hearing_threshold, num_channels, bk) ==
    IF Truth(ssl) = "raises"
    THEN <<Raise("ValueError", "The truth value of an array is ambiguous"), 0>>
    ELSE IF Truth(ssl) = "false"
    THEN <<Raise("ValueError", "The Speech Spectrum Level, ssl, must be specified"), 0>>
    ELSE LET e == EquivalentSpeech(ssl, insertion_gain, distance, bk)
             w == DistanceWarning(ssl, distance)
         IN  IF e.status # "ok" THEN <<e, 0>>
             ELSE LET n == EquivalentNoise(nsl, GainOrZeros(insertion_gain), bk)
                      t == ThresholdOrZeros(hearing_threshold)
                  IN  IF n.status # "ok" THEN <<n, w>>
                      ELSE IF num_channels # 1 /\ num_channels # 2
                      THEN <<Raise("ValueError",
                                   "Invalid value of num_channels specified!"), w>>
                      ELSE <<Ok(Triple(e.val, n.val,
                                       IF num_channels = 2 THEN Binaural(t) ELSE t)),
                             w>>

(***************************************************************************)
(* input_5p2, ff2ed, input_5p3                                             *)
(***************************************************************************)
\* mtf.shape of a matrix given as the sequence of its rows.
MatShape(m) == <<Len(m), IF Len(m) = 0 THEN 0 ELSE Len(m[1])>>

\* Line 344: 10*log10((mtf+eps)/(1-mtf+eps)) for the transfer values the model
\* passes (0, 0.03, 0.1, 0.5, 0.9, 0.97 and 1).
ApparentSnr(m) ==
    CASE m = 0    -> 0 - 156536
      [] m = 30   -> 0 - 15097
      [] m = 100  -> 0 - 9542
      [] m = 500  -> 0
      [] m = 900  -> 9542
      [] m = 970  -> 15097
      [] m = 1000 -> 156536

\* Line 346: limit to the range -15 .. +15 dB.
LimitSnr(snr) == Min(15000, Max(0 - 15000, snr))

RECURSIVE SumSeq(_, _)
SumSeq(s, n) == IF n = 0 THEN 0 ELSE SumSeq(s, n - 1) + s[n]

\* Lines 344-347: the apparent speech-to-noise ratio of each band.
BandSnr(mtf) ==
    [i \in Bands |->
        SumSeq([k \in 1..NumModFreqs |-> LimitSnr(ApparentSnr(mtf[i][k]))],
               NumModFreqs) \div NumModFreqs]

\* Line 349: snr + 10*log10(10**(csns/10) / (1 + 10**(snr/10))).
ApparentSpeech(csns, snr) ==
    [i \in Bands |-> snr[i] + csns[i] - LogAdd(0, snr[i])]

\* Line 350: nsl = esnr - snr.
ApparentNoise(esnr, snr) == [i \in Bands |-> esnr[i] - snr[i]]

\* Line 354: esnr = esnr + gain.
SpeechWithGain(esnr, g) == [i \in Bands |-> esnr[i] + g[i]]

\* Mutant of NoiseWithGain: the gain is added to the speech only.
NoiseWithoutGain(nsl, g) == [i \in Bands |-> nsl[i]]

\* Line 358: nsl = nsl + gain.
NoiseWithGain(nsl, g) == [i \in Bands |-> nsl[i] + g[i]]

\* Lines 314-337: the first check of input_5p2 that fails, or "" when all pass.
ShapeError5p2(csns, mtf, gain, hearing_threshold) ==
    CASE Shape(csns) # <<NumBands>> ->
            "Combined Speech and Noise Spectrum Level: Vector size incorrect"
      [] MatShape(mtf) # <<NumBands, NumModFreqs>> ->
            "Modulation Transfer Function for Intensity: Matrix size incorrect"
      [] Shape(GainOrZeros(gain)) # <<NumBands>> ->
            "Insertion Gain: Vector size incorrect"
      [] Shape(ThresholdOrZeros(hearing_threshold)) # <<NumBands>> ->
            "Hearing Threshold Level: Vector size incorrect"
      [] OTHER -> ""

input_5p2(csns, mtf, gain, hearing_threshold, binaural) ==
    LET err == ShapeError5p2(csns, mtf, gain, hearing_threshold)
    IN  IF csns.form = "none"
        THEN Raise("TypeError", "not a valid JAX array type")
        ELSE IF err # "" THEN Raise("ValueError", err)
        ELSE LET g == GainOrZeros(gain).v
                 t == ThresholdOrZeros(hearing_threshold)
                 snr == BandSnr(mtf)
                 esnr == ApparentSpeech(csns.v, snr)
                 nsl == ApparentNoise(esnr, snr)
             IN  Ok(Triple(ArrayArg(SpeechWithGain(esnr, g)),
                           ArrayArg(NoiseWithGain(nsl, g)),
                           IF binaural THEN Binaural(t) ELSE t))

\* Lines 373-376.
tf ==
    <<0, 500, 1000, 1400, 1500, 1800, 2400, 3100, 2600,
      3000, 6100, 12000, 16800, 15000, 14300, 10700, 6400, 1800>>

fc ==
    <<160, 200, 250, 315, 400, 500, 630, 800, 1000,
      1250, 1600, 2000, 2500, 3150, 4000, 5000, 6300, 8000>>

ff2ed == Ok(<<tf, fc>>)

\* Lines 411-426: the first check of input_5p3 that fails, or "" when all
\* pass; csns.shape is read from the argument as it was passed.
ShapeError5p3(csns, mtf, hearing_threshold) ==
    CASE Shape(csns) # <<NumBands>> ->
            "Combined Speech and Noise Spectrum Level: Vector size incorrect"
      [] MatShape(mtf) # <<NumBands, NumModFreqs>> ->
            "Modulation Transfer Function for Intensity: Matrix size incorrect"
      [] Shape(ThresholdOrZeros(hearing_threshold)) # <<NumBands>> ->
            "Hearing Threshold Level: Vector size incorrect"
      [] OTHER -> ""

\* Whether x.shape can be read: a list, a Python number and None have no shape.
HasShape(x) == x.form = "array"

input_5p3(csns, mtf, hearing_threshold, binaural) ==
    IF ~HasShape(csns)
    THEN Raise("AttributeError", "object has no attribute 'shape'")
    ELSE LET err == ShapeError5p3(csns, mtf, hearing_threshold)
         IN  IF err # "" THEN Raise("ValueError", err)
             ELSE LET t == ThresholdOrZeros(hearing_threshold)
                      snr == BandSnr(mtf)
                      esnr == ApparentSpeech(csns.v, snr)
                      nsl == ApparentNoise(esnr, snr)
                      transfer == ff2ed.val[1]
                  IN  Ok(Triple(ArrayArg([i \in Bands |-> esnr[i] - transfer[i]]),
                                ArrayArg([i \in Bands |-> nsl[i] - transfer[i]]),
                                IF binaural THEN Binaural(t) ELSE t))

(***************************************************************************)
(* The caller: the arguments it passes.                                    *)
(***************************************************************************)
\* Vectors are passed with 18 - MaxLenDelta .. 18 + MaxLenDelta items (and 1).
MaxLenDelta == 1

\* Constant spectra are passed at -50, 0, 50, ... 50*(MaxLevel - 1) dB.
MaxLevel == 6

\* Integer selectors 0 .. MaxSelector and channel counts 0 .. MaxChannels.
MaxSelector == 9

MaxChannels == 3

\* A call of an input procedure leaves at most MaxVaried arguments off their
\* defaults.
MaxVaried == 2

Lens == {1} \cup ((NumBands - MaxLenDelta)..(NumBands + MaxLenDelta))

BadLens == Lens \ {NumBands}

Levels == {50000 * k - 50000 : k \in 0..MaxLevel}

\* The worked example of ChasTest.test_to and test_to_1.
test_ssl ==
    <<90000, 5000, 40000, 40000, 40000, 40000, 40000, 40000, 40000,
      40000, 40000, 40000, 40000, 40000, -10000, -10000, -10000, -10000>>

test_nsl ==
    <<10000, -10000, -10000, 75000, -10000, -10000, -10000, -10000, -10000,
      -10000, -10000, -10000, -10000, -10000, 10000, 10000, 10000, 10000>>

test_thresh == [i \in Bands |-> IF i = 1 THEN 90000 ELSE 0]

test_importance ==
    <<0, 0, 0, 0, 0, 0, 0, 0, 0, 1000, 1000, 1000, 1000, 1000, 1000, 1000, 3000, 0>>

\* Arguments of a wrong shape.
BadVectors ==
    {ListArg(Const(0, n)) : n \in BadLens} \cup {ArrayArg(Const(0, n)) : n \in BadLens}
        \cup {ScalarArg(30000)}

SpeechVectors ==
    {ListArg(test_ssl), ArrayArg(Column(ei, 1)), ArrayArg(Column(ei, 4))}
        \cup {ListArg(Const(l, NumBands)) : l \in Levels}

\* Constant noise spectra are passed at every other level, and one noise
\* spectrum lies 15 dB above the speech of the worked example in every band.
NoiseVectors ==
    {NoneArg, ListArg(test_nsl), ListArg([i \in Bands |-> test_ssl[i] + 15000])}
        \cup {ArrayArg(Const(l, NumBands)) : l \in {x \in Levels : x % 100000 = 0}}

ThresholdVectors == {NoneArg, ListArg(test_thresh), ArrayArg(Const(50000, NumBands))}

IntSelectors == {IntArg(k) : k \in (0 - 1)..MaxSelector}

NameSelectors ==
    {StrArg(band_importance_names[i]) : i \in 1..Len(band_importance_names)}
        \cup {StrArg("SPIN"), StrArg("sii")}

VectorSelectors ==
    {ListArg(test_importance), ArrayArg(Const(10000, NumBands)), ScalarArg(10000)}
        \cup {ListArg(Const(500, n)) : n \in BadLens}

Selectors == IntSelectors \cup NameSelectors \cup VectorSelectors

\* The selectors band_importance documents: 1 to 8, or 18 weights.
ValidSelectors == {IntArg(k) : k \in 1..8} \cup {ListArg(test_importance)}

Labels == {"normal", "raised", "loud", "shout", "all", "Normal", "RAISED", "Loud",
           "SHOUT", "ALL", "whisper", ""}

\* The exception classes jax raises, by version, for shapes that do not broadcast.
BroadcastErrors == {"TypeError", "ValueError"}

ConstMat(c, rows, cols) == [i \in 1..rows |-> [k \in 1..cols |-> c]]

\* A transfer matrix whose entries differ by band and modulation frequency.
MixedMat ==
    [i \in Bands |-> [k \in 1..NumModFreqs |->
        CASE (i + k) % 4 = 0 -> 0
          [] (i + k) % 4 = 1 -> 100
          [] (i + k) % 4 = 2 -> 900
          [] OTHER -> IF i < 10 THEN 1000 ELSE 500]]

Matrices ==
    {ConstMat(c, NumBands, NumModFreqs) : c \in {0, 30, 500, 970, 1000}}
        \cup {MixedMat}
        \cup {ConstMat(1000, r, NumModFreqs) : r \in BadLens}
        \cup {ConstMat(1000, NumBands, c) :
                c \in ((NumModFreqs - MaxLenDelta)..(NumModFreqs + MaxLenDelta))}

\* The number of arguments that are off their defaults.
Varied(given, defaults) == Cardinality({i \in 1..Len(given) : given[i] # defaults[i]})

\* The module's global tables (lines 47-48 and 103-105), Python lists.
ModuleTables ==
    [mid_band_freqs |-> mid_band_freqs, band_importance_names |-> band_importance_names]

(***************************************************************************)
(* The caller: one call at a time.                                         *)
(***************************************************************************)
Init ==
    /\ pc = "idle"
    /\ op = "none"
    /\ source = "caller"
    /\ args = <<>>
    /\ ret = Ok(<<>>)
    /\ locals = NoLocals
    /\ warnings = 0
    /\ held = <<>>
    /\ first = Ok(<<>>)
    /\ tables = ModuleTables

\* A call returns or raises: a the arguments as the caller passed them, h the
\* same objects as the call leaves them.  No function assigns to a module
\* table.
Called(name, from, a, r, loc, w, h) ==
    /\ pc' = "returned"
    /\ op' = name
    /\ source' = from
    /\ args' = a
    /\ ret' = r
    /\ locals' = loc
    /\ warnings' = w
    /\ held' = h
    /\ UNCHANGED <<first, tables>>

\* A call of a function that assigns to local names only.
Returned(name, from, a, r, loc, w) == Called(name, from, a, r, loc, w, a)

\* The arguments of input_5p1 as a call that ended with r leaves them: line
\* 272 is reached when the call returns for binaural listening.
LeftBy5p1(a, r) ==
    IF r.status = "ok" /\ a.num_channels = 2
    THEN [a EXCEPT !.hearing_threshold = SubtractInPlace(a.hearing_threshold, 1700)]
    ELSE a

SiiArgs(ssl, nsl, ht, bif) ==
    [ssl |-> ssl, nsl |-> nsl, hearing_threshold |-> ht,
     band_importance_function |-> bif]

CallSpeechSpectrum ==
    /\ pc = "idle"
    /\ \E label \in Labels :
          Returned("speech_spectrum", "caller", [vocal_effort |-> label],
                   speech_spectrum(label), NoLocals, warnings)

CallBandImportance ==
    /\ pc = "idle"
    /\ \E sel \in Selectors :
          Returned("band_importance", "caller", [test_number |-> sel],
                   band_importance(sel), NoLocals, warnings)

CallFf2ed ==
    /\ pc = "idle"
    /\ Returned("ff2ed", "caller", <<>>, ff2ed, NoLocals, warnings)

\* sii on spectra of the right shape, with a documented selector.
CallSii ==
    /\ pc = "idle"
    /\ \E ssl \in SpeechVectors, nsl \in NoiseVectors, ht \in ThresholdVectors,
          bif \in ValidSelectors :
          LET r == sii(ssl, nsl, ht, bif)
          IN  Returned("sii", "caller", SiiArgs(ssl, nsl, ht, bif), r[1], r[2], warnings)

\* sii on the worked example, with every selector.
CallSiiSelector ==
    /\ pc = "idle"
    /\ \E nsl \in {NoneArg, ListArg(test_nsl)}, bif \in Selectors :
          LET r == sii(ListArg(test_ssl), nsl, ListArg(test_thresh), bif)
          IN  Returned("sii", "caller",
                       SiiArgs(ListArg(test_ssl), nsl, ListArg(test_thresh), bif),
                       r[1], r[2], warnings)

\* sii with arguments of a wrong shape among them.
CallSiiBadShape ==
    /\ pc = "idle"
    /\ \E ssl \in {ListArg(test_ssl)} \cup BadVectors,
          nsl \in {NoneArg, ListArg(test_nsl)} \cup BadVectors,
          ht \in {NoneArg, ListArg(test_thresh)} \cup BadVectors,
          bif \in {IntArg(1), IntArg(0)} :
          /\ \E x \in {ssl, nsl, ht} : x \in BadVectors
          /\ LET r == sii(ssl, nsl, ht, bif)
             IN  Returned("sii", "caller", SiiArgs(ssl, nsl, ht, bif), r[1], r[2],
                          warnings)

CallInput5p1 ==
    /\ pc = "idle"
    /\ \E ssl \in {StrArg(l) : l \in {"normal", "raised", "loud", "shout", "SHOUT", "whisper", ""}}
                    \cup {NoneArg, ListArg(test_ssl), ArrayArg(test_ssl), ListArg(<<>>)}
                    \cup BadVectors,
          nsl \in {NoneArg, ListArg(test_nsl)} \cup BadVectors,
          gain \in {NoneArg, ArrayArg(Const(0 - 5000, NumBands)),
                    ListArg(Const(3000, NumBands))}
                    \cup {ArrayArg(Const(2000, n)) : n \in BadLens},
          distance \in {NoneArg, ScalarArg(0), ScalarArg(10), ScalarArg(20)},
          ht \in {NoneArg, ListArg(test_thresh), ArrayArg(Const(50000, NumBands))}
                    \cup BadVectors,
          num_channels \in 0..MaxChannels,
          bk \in BroadcastErrors :
          /\ Varied(<<ssl, nsl, gain, distance, ht, num_channels>>,
                    <<StrArg("normal"), NoneArg, NoneArg, NoneArg, NoneArg, 1>>)
                <= MaxVaried
          /\ LET r == input_5p1(ssl, nsl, gain, distance, ht, num_channels, bk)
                 a == [ssl |-> ssl, nsl |-> nsl, insertion_gain |-> gain,
                       distance |-> distance, hearing_threshold |-> ht,
                       num_channels |-> num_channels]
             IN  Called("input_5p1", "caller", a, r[1], NoLocals, warnings + r[2],
                        LeftBy5p1(a, r[1]))

CsnsVectors ==
    {ArrayArg(Const(50000, NumBands)), ListArg(Const(50000, NumBands)),
     ArrayArg(test_ssl)} \cup BadVectors

CallInput5p2 ==
    /\ pc = "idle"
    /\ \E csns \in CsnsVectors, mtf \in Matrices,
          gain \in {NoneArg, ArrayArg(Const(0 - 5000, NumBands)),
                    ListArg(Const(3000, NumBands))}
                    \cup {ArrayArg(Const(2000, n)) : n \in BadLens},
          ht \in {NoneArg, ListArg(test_thresh)} \cup BadVectors,
          binaural \in BOOLEAN :
          /\ Varied(<<csns, mtf, gain, ht, binaural>>,
                    <<ArrayArg(Const(50000, NumBands)),
                      ConstMat(1000, NumBands, NumModFreqs), NoneArg, NoneArg, FALSE>>)
                <= MaxVaried
          /\ Returned("input_5p2", "caller",
                      [csns |-> csns, mtf |-> mtf, gain |-> gain,
                       hearing_threshold |-> ht, binaural |-> binaural],
                      input_5p2(csns, mtf, gain, ht, binaural), NoLocals, warnings)

CallInput5p3 ==
    /\ pc = "idle"
    /\ \E csns \in CsnsVectors, mtf \in Matrices,
          ht \in {NoneArg, ListArg(test_thresh)} \cup BadVectors,
          binaural \in BOOLEAN :
          /\ Varied(<<csns, mtf, ht, binaural>>,
                    <<ArrayArg(Const(50000, NumBands)),
                      ConstMat(1000, NumBands, NumModFreqs), NoneArg, FALSE>>)
                <= MaxVaried
          /\ Returned("input_5p3", "caller",
                      [csns |-> csns, mtf |-> mtf, hearing_threshold |-> ht,
                       binaural |-> binaural],
                      input_5p3(csns, mtf, ht, binaural), NoLocals, warnings)

\* The triple an input procedure returned is passed on to sii.
CallSiiOnTriple ==
    /\ pc = "returned"
    /\ op \in {"input_5p1", "input_5p2", "input_5p3"}
    /\ source = "caller"
    /\ ret.status = "ok"
    /\ LET r == sii(ret.val.ssl, ret.val.nsl, ret.val.hearing_threshold, IntArg(1))
       IN  Returned("sii", op,
                    SiiArgs(ret.val.ssl, ret.val.nsl, ret.val.hearing_threshold,
                            IntArg(1)),
                    r[1], r[2], warnings)

\* The outcome <<ret, locals, warnings emitted>> of the function name called
\* with the arguments a, bk being the exception class of the installed jax.
Invoke(name, a, bk) ==
    CASE name = "speech_spectrum" -> <<speech_spectrum(a.vocal_effort), NoLocals, 0>>
      [] name = "band_importance" -> <<band_importance(a.test_number), NoLocals, 0>>
      [] name = "ff2ed" -> <<ff2ed, NoLocals, 0>>
      [] name = "sii" ->
            LET r == sii(a.ssl, a.nsl, a.hearing_threshold, a.band_importance_function)
            IN  <<r[1], r[2], 0>>
      [] name = "input_5p1" ->
            LET r == input_5p1(a.ssl, a.nsl, a.insertion_gain, a.distance,
                               a.hearing_threshold, a.num_channels, bk)
            IN  <<r[1], NoLocals, r[2]>>
      [] name = "input_5p2" ->
            <<input_5p2(a.csns, a.mtf, a.gain, a.hearing_threshold, a.binaural),
              NoLocals, 0>>
      [] name = "input_5p3" ->
            <<input_5p3(a.csns, a.mtf, a.hearing_threshold, a.binaural), NoLocals, 0>>

\* The caller repeats the call it just made, passing the same objects again,
\* under the jax that ran the first call.
RepeatCall ==
    /\ pc = "returned"
    /\ source = "caller"
    /\ \E bk \in BroadcastErrors :
          /\ Invoke(op, args, bk)[1] = ret
          /\ LET r == Invoke(op, held, bk)
             IN  /\ pc' = "repeated"
                 /\ first' = ret
                 /\ ret' = r[1]
                 /\ locals' = r[2]
                 /\ warnings' = warnings + r[3]
                 /\ held' = IF op = "input_5p1" THEN LeftBy5p1(held, r[1]) ELSE held
                 /\ UNCHANGED <<op, source, args, tables>>

\* The caller takes the outcome; nothing of a call outlives it.
Return ==
    /\ pc \in {"returned", "repeated"}
    /\ pc' = "idle"
    /\ op' = "none"
    /\ source' = "caller"
    /\ args' = <<>>
    /\ ret' = Ok(<<>>)
    /\ locals' = NoLocals
    /\ warnings' = 0
    /\ held' = <<>>
    /\ first' = Ok(<<>>)
    /\ UNCHANGED tables

Next ==
    \/ CallSpeechSpectrum
    \/ CallBandImportance
    \/ CallFf2ed
    \/ CallSii
    \/ CallSiiSelector
    \/ CallSiiBadShape
    \/ CallInput5p1
    \/ CallInput5p2
    \/ CallInput5p3
    \/ CallSiiOnTriple
    \/ RepeatCall
    \/ Return

Spec == Init /\ [][Next]_vars

(***************************************************************************)
(* Claims.                                                                 *)
(***************************************************************************)
SiiReturned == pc = "returned" /\ op = "sii"

\* The spectra sii computes with: an omitted one taken as the constant c.
Given(x, c) == IF x.form = "none" THEN Const(c, NumBands) ELSE x.v

IsTestTo(bif) ==
    /\ args.ssl = ListArg(test_ssl)
    /\ args.nsl = ListArg(test_nsl)
    /\ args.hearing_threshold = ListArg(test_thresh)
    /\ args.band_importance_function = bif

(* C1: for valid inputs sii returns the sum over the 18 bands of           *)
(* I[i]*L[i]*K[i], with B = max(speech - 24, noise), X = X0 + threshold,   *)
(* D = max(Z, X), L = min(1, 1 - (speech - normal - 10)/160) and           *)
(* K = clamp((speech - D + 15)/30, 0, 1); the worked example of test_to    *)
(* scores 0.445 (+-1e-3) and, with the importance of test_to_1, 0.438      *)
(* (+-1e-3).                                                               *)
C1_SiiIsWeightedAudibility ==
    (SiiReturned /\ ret.status = "ok") =>
        LET speech == args.ssl.v
            noise == Given(args.nsl, 0 - 50000)
            threshold == Given(args.hearing_threshold, 0)
            I == band_importance(args.band_importance_function).val
            normal == speech_spectrum("normal").val
        IN  /\ \A i \in Bands :
                LET V == speech[i] - 24000
                    L160 == Min(160000, 160000 - (speech[i] - normal[i] - 10000))
                    K30 == Min(30000, Max(0, speech[i] - locals.D[i] + 15000))
                IN  /\ locals.B[i] >= V /\ locals.B[i] >= noise[i]
                    /\ locals.B[i] \in {V, noise[i]}
                    /\ locals.X[i] = X0[i] + threshold[i]
                    /\ locals.D[i] >= locals.Z[i] /\ locals.D[i] >= locals.X[i]
                    /\ locals.D[i] \in {locals.Z[i], locals.X[i]}
                    /\ 4 * locals.L[i] <= 25 * L160 /\ 25 * L160 < 4 * locals.L[i] + 4
                    /\ 3 * locals.K[i] <= 100 * K30 /\ 100 * K30 < 3 * locals.K[i] + 3
                    /\ locals.A[i] = MulK(locals.L[i], locals.K[i]) \div 1000
            /\ ret.val = SumSeq([i \in Bands |-> MulK(locals.A[i], I[i]) \div 10], NumBands)
            /\ IsTestTo(IntArg(1)) => ret.val \in 444000..446000
            /\ IsTestTo(ListArg(test_importance)) => ret.val \in 437000..439000

C1_Witness ==
    /\ SiiReturned
    /\ ret.status = "ok"
    /\ IsTestTo(IntArg(1))
    /\ ret.val \in 444000..446000
    /\ \E i \in Bands : locals.D[i] = locals.X[i] /\ locals.X[i] > locals.Z[i]
    /\ \E i \in Bands : locals.K[i] > 0 /\ locals.K[i] < 1000000

StandardSelector ==
    /\ args.band_importance_function.form = "int"
    /\ args.band_importance_function.v[1] \in 1..8

SpeechBelowDistortionLimit ==
    \A i \in Bands : args.ssl.v[i] <= speech_spectrum("normal").val[i] + 170000

BandImportanceReturned == pc = "returned" /\ op = "band_importance"

(* C3: band_importance called with a recognized test name returns the same *)
(* 18-vector as band_importance called with that name's number in the      *)
(* table; band_importance('spin') equals band_importance(7).               *)
C3_NameEqualsNumber ==
    (BandImportanceReturned /\ args.test_number.form = "str"
        /\ InNames(args.test_number.s)) =>
        ret = band_importance(IntArg(DocumentedNumber(args.test_number.s)))

(* C4: every name of the recognized list is accepted by band_importance,   *)
(* which returns a column of the importance table; only a name that is not *)
(* in the list fails, with a ValueError.                                   *)
C4_ListedNamesAccepted ==
    (BandImportanceReturned /\ args.test_number.form = "str") =>
        IF InNames(args.test_number.s)
        THEN /\ ret.status = "ok"
             /\ \E c \in 1..8 : ret.val = Column(band_importance_array, c)
        ELSE ret.status = "ValueError"

(* C5: for an integer selector k, band_importance(k) returns column k      *)
(* (counted from 1) of the 18x8 importance table when 1 <= k <= 8 and      *)
(* fails with a ValueError for every k < 1 or k > 8; sii called with such  *)
(* an out-of-range selector fails too instead of returning a score.        *)
C5_IntegerSelector ==
    /\ (BandImportanceReturned /\ args.test_number.form = "int") =>
          LET k == args.test_number.v[1]
          IN  IF 1 <= k /\ k <= 8
              THEN /\ ret.status = "ok"
                   /\ Len(ret.val) = NumBands
                   /\ \A i \in Bands : ret.val[i] = band_importance_array[i][k]
              ELSE ret.status = "ValueError"
    /\ (SiiReturned /\ args.band_importance_function.form = "int"
          /\ args.band_importance_function.v[1] \notin 1..8) =>
          ret.status = "ValueError"

C5_Witness ==
    /\ SiiReturned
    /\ args.band_importance_function = IntArg(9)
    /\ Shape(args.ssl) = <<NumBands>>
    /\ Shape(args.nsl) = <<NumBands>>
    /\ Shape(args.hearing_threshold) = <<NumBands>>
    /\ ret = Raise("ValueError", "Test number must be between 1 and 8")

\* Whether a vector was supplied and has not exactly 18 entries.
WrongLength(x) == x.form \notin {"none", "str"} /\ Shape(x) # <<NumBands>>

(* C6: input_5p1 fails with a ValueError, and returns no triple, whenever  *)
(* a supplied vector argument (raw ssl, nsl, insertion_gain or             *)
(* hearing_threshold) has not exactly 18 entries.                          *)
C6_Input5p1RejectsWrongLength ==
    (pc = "returned" /\ op = "input_5p1"
        /\ \E x \in {args.ssl, args.nsl, args.insertion_gain, args.hearing_threshold} :
              WrongLength(x)) =>
        ret.status = "ValueError"

IsNormalizer == op \in {"input_5p1", "input_5p2", "input_5p3"}

(* C7: whenever input_5p1, input_5p2 or input_5p3 returns, each of the     *)
(* three returned values is a vector of exactly 18 entries, so passing the *)
(* triple to sii never fails sii's length validation.                      *)
C7_TripleHasEighteenBands ==
    /\ (pc = "returned" /\ IsNormalizer /\ ret.status = "ok") =>
          /\ Shape(ret.val.ssl) = <<NumBands>>
          /\ Shape(ret.val.nsl) = <<NumBands>>
          /\ Shape(ret.val.hearing_threshold) = <<NumBands>>
    /\ (SiiReturned /\ source # "caller") => ret.status = "ok"

\* sii's selector is one band_importance documents: 1..8 or 18 weights.
DocumentedSelector(x) ==
    \/ x.form = "int" /\ x.v[1] \in 1..8
    \/ x.form \in {"list", "array"} /\ Len(x.v) = NumBands

(* C8: sii fails with a ValueError if speech, noise or hearing threshold   *)
(* is supplied with a length other than 18, and otherwise, with a valid    *)
(* selector, returns a score; an omitted noise vector is treated as -50 in *)
(* all 18 bands and an omitted threshold as 0 in all 18 bands.             *)
C8_SiiValidatesLengths ==
    (SiiReturned /\ source = "caller") =>
        LET bad == \E x \in {args.ssl, args.nsl, args.hearing_threshold} : WrongLength(x)
            explicit == sii(args.ssl,
                            ArrayArg(Given(args.nsl, 0 - 50000)),
                            ArrayArg(Given(args.hearing_threshold, 0)),
                            args.band_importance_function)
        IN  /\ bad => ret.status = "ValueError"
            /\ (~bad /\ DocumentedSelector(args.band_importance_function)) =>
                  ret.status = "ok"
            /\ (~bad /\ (args.nsl.form = "none" \/ args.hearing_threshold.form = "none")) =>
                  /\ ret = explicit[1]
                  /\ locals = explicit[2]

C8_Witness ==
    /\ SiiReturned
    /\ source = "caller"
    /\ args.ssl = ListArg(test_ssl)
    /\ args.nsl = ListArg(Const(0, NumBands - 1))
    /\ args.hearing_threshold = ListArg(test_thresh)
    /\ ret = Raise("ValueError",
                   "Equivalent Noise Spectrum Level: Vector size incorrect")

\* Whether the shapes input_5p2 and input_5p3 check are all as documented.
ShapesRight5p(a, withGain) ==
    /\ ~WrongLength(a.csns)
    /\ a.csns.form # "none"
    /\ MatShape(a.mtf) = <<NumBands, NumModFreqs>>
    /\ withGain => ~WrongLength(a.gain)
    /\ ~WrongLength(a.hearing_threshold)

(* C9: input_5p2 and input_5p3 fail with a ValueError when the combined    *)
(* speech-and-noise vector is not of length 18, when the modulation        *)
(* transfer matrix is not exactly 18x9, or when a supplied gain (5.2 only) *)
(* or hearing-threshold vector is not of length 18; with all shapes        *)
(* correct they return a triple.                                           *)
C9_Input5p2And5p3ValidateShapes ==
    (pc = "returned" /\ op \in {"input_5p2", "input_5p3"}) =>
        IF ShapesRight5p(args, op = "input_5p2")
        THEN ret.status = "ok"
        ELSE ret.status = "ValueError"

(* C10: input_5p3 applies the same shape validation as input_5p2: whether  *)
(* csns is an array or a plain list, input_5p3 succeeds exactly when       *)
(* input_5p2 with gain omitted succeeds, and fails with the same kind of   *)
(* error.                                                                  *)
C10_Input5p3ValidatesLike5p2 ==
    (pc = "returned" /\ op = "input_5p3") =>
        ret.status = input_5p2(args.csns, args.mtf, NoneArg, args.hearing_threshold,
                               args.binaural).status

Input5p1Returned == pc = "returned" /\ op = "input_5p1"

\* An argument that is omitted or a vector of 18 numbers.
OmittedOrBands(x) == x.form = "none" \/ (x.form \in {"list", "array"} /\ Len(x.v) = NumBands)

\* The numbers of a supplied vector, or 18 times c for an omitted one.
Supplied(x, c) == IF x.form = "none" THEN Const(c, NumBands) ELSE x.v

(* C11: for every valid (csns, mtf, hearing_threshold, binaural),          *)
(* input_5p3 returns speech and noise equal band by band to the speech and *)
(* noise input_5p2 returns with zero gain minus the transfer vector of     *)
(* ff2ed, and the same threshold as input_5p2.                             *)
C11_Input5p3Is5p2MinusTransfer ==
    (pc = "returned" /\ op = "input_5p3" /\ ShapesRight5p(args, FALSE)) =>
        LET p2 == input_5p2(args.csns, args.mtf, ArrayArg(Const(0, NumBands)),
                            args.hearing_threshold, args.binaural)
            transfer == ff2ed.val[1]
        IN  /\ p2.status = "ok"
            /\ ret.status = "ok"
            /\ \A i \in Bands :
                  /\ ret.val.ssl.v[i] = p2.val.ssl.v[i] - transfer[i]
                  /\ ret.val.nsl.v[i] = p2.val.nsl.v[i] - transfer[i]
            /\ ret.val.hearing_threshold = p2.val.hearing_threshold

\* The column of the speech spectrum table a vocal effort names, in any
\* letter case the caller writes it; 0 for any other label.
EffortColumn(label) ==
    CASE label \in {"normal", "Normal"} -> 1
      [] label \in {"raised", "RAISED"} -> 2
      [] label \in {"loud", "Loud"}     -> 3
      [] label \in {"shout", "SHOUT"}   -> 4
      [] OTHER -> 0

(* C12: for each vocal effort name in {normal, raised, loud, shout},       *)
(* input_5p1(name) with every other argument omitted returns speech equal  *)
(* to the named column of the speech spectrum table, noise -50 in all 18   *)
(* bands and threshold 0 in all 18 bands; omitting the distance gives the  *)
(* same triple as distance = 1.0.                                          *)
C12_NamedEffortDefaults ==
    (Input5p1Returned /\ args.ssl.form = "str" /\ EffortColumn(args.ssl.s) # 0
        /\ args.nsl = NoneArg /\ args.insertion_gain = NoneArg
        /\ args.hearing_threshold = NoneArg /\ args.num_channels = 1
        /\ args.distance \in {NoneArg, ScalarArg(10)}) =>
        ret = Ok(Triple(ArrayArg(Column(ei, EffortColumn(args.ssl.s))),
                        ArrayArg(Const(0 - 50000, NumBands)),
                        ArrayArg(Const(0, NumBands))))

C12_Witness ==
    /\ Input5p1Returned
    /\ args.ssl = StrArg("loud")
    /\ args.distance = ScalarArg(10)
    /\ args.nsl = NoneArg /\ args.insertion_gain = NoneArg
    /\ args.hearing_threshold = NoneArg /\ args.num_channels = 1
    /\ ret.status = "ok"
    /\ ret.val.ssl.v[1] = 35290
    /\ ret.val.nsl.v[NumBands] = 0 - 50000

(* C13: when ssl is a raw 18-vector, in whatever form it is passed,        *)
(* input_5p1 returns speech = ssl + insertion_gain band by band; if a      *)
(* distance is also supplied the call emits a warning, does not fail, and  *)
(* returns the same triple as the same call without a distance.            *)
C13_RawSpeechPlusGain ==
    (Input5p1Returned /\ args.ssl.form \in {"list", "array"}
        /\ Len(args.ssl.v) = NumBands
        /\ OmittedOrBands(args.nsl) /\ OmittedOrBands(args.insertion_gain)
        /\ OmittedOrBands(args.hearing_threshold) /\ args.num_channels \in {1, 2}) =>
        /\ ret.status = "ok"
        /\ \A i \in Bands :
              ret.val.ssl.v[i] = args.ssl.v[i] + Supplied(args.insertion_gain, 0)[i]
        /\ (args.distance.form = "scalar" /\ args.distance.v[1] > 0) =>
              /\ warnings = 1
              /\ ret = input_5p1(args.ssl, args.nsl, args.insertion_gain, NoneArg,
                                 args.hearing_threshold, args.num_channels,
                                 "ValueError")[1]

(* C14: the noise input_5p1 returns is -50 in all 18 bands when no noise   *)
(* vector is supplied, whatever insertion gain is supplied, and otherwise  *)
(* is the supplied noise vector plus the insertion gain band by band (plus *)
(* zero when no gain is supplied).                                         *)
C14_NoisePlusGain ==
    (Input5p1Returned /\ ret.status = "ok") =>
        /\ args.nsl.form = "none" =>
              ret.val.nsl = ArrayArg(Const(0 - 50000, NumBands))
        /\ (args.nsl.form \in {"list", "array"} /\ Len(args.nsl.v) = NumBands
              /\ OmittedOrBands(args.insertion_gain)) =>
              /\ Shape(ret.val.nsl) = <<NumBands>>
              /\ \A i \in Bands :
                    ret.val.nsl.v[i] =
                        args.nsl.v[i] + Supplied(args.insertion_gain, 0)[i]

C14_Witness ==
    /\ Input5p1Returned
    /\ args.nsl = ListArg(test_nsl)
    /\ args.insertion_gain = ArrayArg(Const(0 - 5000, NumBands))
    /\ ret.status = "ok"
    /\ ret.val.nsl.v[4] = 70000
    /\ ret.val.nsl.v[1] = 5000

\* Whether the call asked for binaural listening.
BinauralCall ==
    IF op = "input_5p1" THEN args.num_channels = 2 ELSE args.binaural

\* The speech and the noise the same call returns for monaural listening.
MonauralCall ==
    CASE op = "input_5p1" ->
            input_5p1(args.ssl, args.nsl, args.insertion_gain, args.distance,
                      args.hearing_threshold, 1, "ValueError")[1]
      [] op = "input_5p2" ->
            input_5p2(args.csns, args.mtf, args.gain, args.hearing_threshold, FALSE)
      [] op = "input_5p3" ->
            input_5p3(args.csns, args.mtf, args.hearing_threshold, FALSE)

(* C15: in all three normalizers the returned threshold is the supplied    *)
(* hearing threshold (0 in all bands when omitted) unchanged for monaural  *)
(* listening, and that vector minus exactly 1.7 dB in every band for       *)
(* binaural listening; the binaural setting changes neither the returned   *)
(* speech nor the returned noise.                                          *)
C15_BinauralLowersThreshold ==
    (pc = "returned" /\ IsNormalizer /\ source = "caller" /\ ret.status = "ok") =>
        LET given == Supplied(args.hearing_threshold, 0)
            less == IF BinauralCall THEN 1700 ELSE 0
        IN  /\ Len(ret.val.hearing_threshold.v) = Len(given)
            /\ \A i \in 1..Len(given) :
                  ret.val.hearing_threshold.v[i] = given[i] - less
            /\ MonauralCall.status = "ok"
            /\ ret.val.ssl = MonauralCall.val.ssl
            /\ ret.val.nsl = MonauralCall.val.nsl

C15_Witness ==
    /\ pc = "returned"
    /\ op = "input_5p3"
    /\ args.binaural
    /\ args.hearing_threshold = ListArg(test_thresh)
    /\ ret.status = "ok"
    /\ ret.val.hearing_threshold.v[1] = 88300
    /\ ret.val.hearing_threshold.v[2] = 0 - 1700

\* Whether every entry of the transfer matrix m is c.
AllEntries(m, c) == \A i \in 1..Len(m) : \A k \in 1..Len(m[i]) : m[i][k] = c

(* C16: for every 18x9 modulation transfer matrix, entries exactly 0 or    *)
(* exactly 1 included, input_5p2 and input_5p3 do not fail, and in every   *)
(* band the returned speech minus the returned noise lies in [-15, +15]    *)
(* dB; an all-ones matrix gives exactly +15 dB in every band and an        *)
(* all-zeros matrix exactly -15 dB.                                        *)
C16_ApparentSnrLimited ==
    (pc = "returned" /\ op \in {"input_5p2", "input_5p3"}
        /\ ShapesRight5p(args, op = "input_5p2")) =>
        /\ ret.status = "ok"
        /\ \A i \in Bands :
              LET snr == ret.val.ssl.v[i] - ret.val.nsl.v[i]
              IN  /\ snr >= 0 - 15000
                  /\ snr <= 15000
                  /\ AllEntries(args.mtf, 1000) => snr = 15000
                  /\ AllEntries(args.mtf, 0) => snr = 0 - 15000

(* C17: in input_5p2 the insertion gain is added equally to the speech and *)
(* the noise: for every valid input and gain vector g, input_5p2(gain = g) *)
(* returns the speech and noise of input_5p2(gain omitted) plus g band by  *)
(* band, so the speech-minus-noise difference of a band and the returned   *)
(* threshold do not depend on the gain.                                    *)
C17_GainAddedToBoth ==
    (pc = "returned" /\ op = "input_5p2" /\ args.gain.form # "none"
        /\ ShapesRight5p(args, TRUE)) =>
        LET base == input_5p2(args.csns, args.mtf, NoneArg, args.hearing_threshold,
                              args.binaural)
        IN  /\ ret.status = "ok"
            /\ base.status = "ok"
            /\ \A i \in Bands :
                  /\ ret.val.ssl.v[i] = base.val.ssl.v[i] + args.gain.v[i]
                  /\ ret.val.nsl.v[i] = base.val.nsl.v[i] + args.gain.v[i]
                  /\ ret.val.ssl.v[i] - ret.val.nsl.v[i]
                        = base.val.ssl.v[i] - base.val.nsl.v[i]
            /\ ret.val.hearing_threshold = base.val.hearing_threshold

C17_Witness ==
    /\ pc = "returned"
    /\ op = "input_5p2"
    /\ args.gain = ListArg(Const(3000, NumBands))
    /\ args.mtf = MixedMat
    /\ ret.status = "ok"
    /\ \E i \in Bands : ret.val.ssl.v[i] - ret.val.nsl.v[i] \notin {15000, 0 - 15000}

\* An ssl that is missing or empty.
MissingSpeech(x) ==
    \/ x.form = "none"
    \/ x.form = "str" /\ x.s = ""
    \/ x.form \in {"list", "array"} /\ Len(x.v) = 0

\* An ssl the documentation allows: one of the four names or 18 numbers.
ValidSpeech(x) ==
    \/ x.form = "str" /\ EffortColumn(x.s) # 0
    \/ x.form \in {"list", "array"} /\ Len(x.v) = NumBands

(* C18: input_5p1 fails with a ValueError, returning no triple, when ssl   *)
(* is missing or empty and when num_channels is any value other than 1 or  *)
(* 2; with num_channels 1 or 2 and a valid ssl it returns a triple.        *)
C18_Input5p1Failures ==
    Input5p1Returned =>
        LET rest == /\ OmittedOrBands(args.nsl)
                    /\ OmittedOrBands(args.insertion_gain)
                    /\ OmittedOrBands(args.hearing_threshold)
        IN  /\ MissingSpeech(args.ssl) => ret.status = "ValueError"
            /\ (args.num_channels \notin {1, 2} /\ ValidSpeech(args.ssl) /\ rest) =>
                  ret.status = "ValueError"
            /\ (args.num_channels \in {1, 2} /\ ValidSpeech(args.ssl) /\ rest) =>
                  ret.status = "ok"

(* C19: speech_spectrum returns the matching 18-value column for 'normal', *)
(* 'raised', 'loud' and 'shout' in any letter case, the full 18x4 table    *)
(* for 'all', and fails with a ValueError for every other label;           *)
(* input_5p1 given an unrecognized vocal effort name fails with that error *)
(* rather than using a default spectrum.                                   *)
C19_SpeechSpectrumLabels ==
    /\ (pc = "returned" /\ op = "speech_spectrum") =>
          LET label == args.vocal_effort
          IN  IF EffortColumn(label) # 0
              THEN /\ ret.status = "ok"
                   /\ Len(ret.val) = NumBands
                   /\ \A i \in Bands : ret.val[i] = ei[i][EffortColumn(label)]
              ELSE IF label \in {"all", "ALL"}
              THEN ret = Ok(ei)
              ELSE ret.status = "ValueError"
    /\ (Input5p1Returned /\ args.ssl.form = "str" /\ args.ssl.s # ""
          /\ EffortColumn(args.ssl.s) = 0 /\ args.ssl.s \notin {"all", "ALL"}) =>
          ret = Raise("ValueError", "Identifier string not recognized")

C19_Witness ==
    /\ Input5p1Returned
    /\ args.ssl = StrArg("whisper")
    /\ ret = Raise("ValueError", "Identifier string not recognized")

(* C20: band_importance given a custom vector returns it unchanged (same   *)
(* 18 values, same order, not normalized to sum 1) when it has exactly 18  *)
(* entries and fails with a ValueError when it has any other length; sii   *)
(* weights the band audibilities with exactly that vector.                 *)
C20_CustomImportance ==
    /\ (BandImportanceReturned /\ args.test_number.form \in {"list", "array"}) =>
          IF Len(args.test_number.v) = NumBands
          THEN ret = Ok(args.test_number.v)
          ELSE ret.status = "ValueError"
    /\ (SiiReturned /\ args.band_importance_function.form \in {"list", "array"}
          /\ ~(\E x \in {args.ssl, args.nsl, args.hearing_threshold} : WrongLength(x))) =>
          IF Len(args.band_importance_function.v) = NumBands
          THEN /\ ret.status = "ok"
               /\ ret.val = SumSeq([i \in Bands |->
                                MulK(locals.A[i], args.band_importance_function.v[i])
                                    \div 10], NumBands)
          ELSE ret.status = "ValueError"

C20_Witness ==
    /\ SiiReturned
    /\ args.band_importance_function = ArrayArg(Const(10000, NumBands))
    /\ ret.status = "ok"
    /\ ret.val > 1000000
    /\ ret.val = SumSeq(locals.A, NumBands)

(* C21: each of the eight columns of the band importance table (selectors  *)
(* 1 to 8) has 18 non-negative weights that sum to 1, exactly 1.0000 at    *)
(* the four decimals of the table.                                         *)
C21_ColumnsSumToOne ==
    /\ \A c \in 1..8 :
          /\ \A i \in Bands : band_importance_array[i][c] >= 0
          /\ SumSeq(Column(band_importance_array, c), NumBands) = 10000
    /\ (BandImportanceReturned /\ args.test_number.form = "int" /\ ret.status = "ok") =>
          SumSeq(ret.val, NumBands) = 10000

\* Whether the sequence s is strictly increasing.
StrictlyIncreasing(s) == \A i \in 1..(Len(s) - 1) : s[i] < s[i + 1]

(* C25: the band centre frequencies are the same 18 strictly increasing    *)
(* values from 160 Hz to 8000 Hz everywhere the code holds them: the       *)
(* module table mid_band_freqs, the frequency vector ff2ed returns and the *)
(* vector f used inside sii agree entry by entry.                          *)
C25_SameCentreFrequencies ==
    /\ Len(mid_band_freqs) = NumBands
    /\ StrictlyIncreasing(mid_band_freqs)
    /\ mid_band_freqs[1] = 160
    /\ mid_band_freqs[NumBands] = 8000
    /\ \A i \in Bands : mid_band_freqs[i] = fc[i] /\ fc[i] = f[i]
    /\ (pc = "returned" /\ op = "ff2ed") => ret.val[2] = mid_band_freqs

\* Whether the noise lies at least 15 dB above the speech in every band.
NoiseCoversSpeech ==
    \A i \in Bands : Given(args.nsl, 0 - 50000)[i] >= args.ssl.v[i] + 15000

Shifts == {7000, 0 - 30000}

\* sii's Z[i] for the speech sp and the noise no (lines 575-592).
MaskingOf(sp, no, i) ==
    LET B == MaskingBase(SelfMasking(sp), no)
    IN  MaskingLevel(B, Slope(B), no)[i]

\* Z[i] is as returned when the speech of the bands k >= i and the noise of
\* the bands k > i are shifted by d.
CausalAt(i, d) ==
    LET speech == args.ssl.v
        noise == Given(args.nsl, 0 - 50000)
        sp == [k \in Bands |-> IF k >= i THEN speech[k] + d ELSE speech[k]]
        no == [k \in Bands |-> IF k > i THEN noise[k] + d ELSE noise[k]]
    IN  MaskingOf(sp, no, i) = locals.Z[i]

\* Z[i] is as returned when B[i] alone is shifted by d.
OwnLevelIgnoredAt(i, d) ==
    LET noise == Given(args.nsl, 0 - 50000)
        B == [k \in Bands |-> IF k = i THEN locals.B[k] + d ELSE locals.B[k]]
    IN  MaskingLevel(B, Slope(B), noise)[i] = locals.Z[i]

(* C23, as claimed: in sii's masking step Z[0] = B[0], for every band      *)
(* i >= 1 the value Z[i] is determined only by noise[i] and by B[j], C[j]  *)
(* of the lower bands j < i, so changing speech[k] for k >= i or noise[k]  *)
(* for k > i leaves Z[i] unchanged, and no band's masking level depends on *)
(* its own B value.                                                        *)
C23_MaskingCausal ==
    (SiiReturned /\ ret.status = "ok") =>
        /\ locals.Z[1] = locals.B[1]
        /\ \A i \in 2..NumBands : \A d \in Shifts : CausalAt(i, d)
        /\ \A i \in Bands : \A d \in Shifts : OwnLevelIgnoredAt(i, d)

(* C23, corrected: Z[0] = B[0], so the lowest band's masking level is its  *)
(* own B value; for every band i >= 1 the value Z[i] is determined only by *)
(* noise[i] and by B[j], C[j] of the lower bands j < i: changing speech[k] *)
(* for k >= i, noise[k] for k > i, or B[i] itself leaves Z[i] unchanged.   *)
C23_MaskingCausalAboveLowestBand ==
    (SiiReturned /\ ret.status = "ok") =>
        /\ locals.Z[1] = locals.B[1]
        /\ \A i \in 2..NumBands : \A d \in Shifts :
              CausalAt(i, d) /\ OwnLevelIgnoredAt(i, d)

C23_Witness ==
    /\ SiiReturned
    /\ ret.status = "ok"
    /\ IsTestTo(IntArg(1))
    /\ locals.Z[1] = locals.B[1]
    /\ ~OwnLevelIgnoredAt(1, 7000)
    /\ \E i \in 2..NumBands :
          /\ locals.Z[i] > Given(args.nsl, 0 - 50000)[i]
          /\ locals.B[i] > Given(args.nsl, 0 - 50000)[i]
          /\ CausalAt(i, 7000)

====
